---- MODULE Spec2Model ----
(***************************************************************************)
(* Model of SimuladorAtencionPublico (src/simulacion_boxes.py): the        *)
(* discrete-time engine of a service facility with a shared queue          *)
(* ("cola") and a fixed number of service stations ("boxes"), driven by    *)
(* ejecutar_simulacion_rapida.                                             *)
(*                                                                         *)
(* Encoding.  A Cliente object is referred to by its id; the objects       *)
(* themselves live in clientes_ingresados (position id + 1), so cola,      *)
(* clientes_atendidos, clientes_abandonaron and Box.cliente_actual hold    *)
(* ids.  Optional[int] fields hold None.  A float sample of                *)
(* np.random.normal is a fixed-point number in tenths of a second.         *)
(* random.random() < PROB_INGRESO is a nondeterministic boolean.           *)
(***************************************************************************)
EXTENDS Integers, Sequences, FiniteSets, TLC

VARIABLES
    pc,                    \* position of the caller / of simular_paso
    arg_num_boxes,         \* the num_boxes argument handed to __init__
    num_boxes,             \* self.num_boxes
    boxes,                 \* self.boxes
    cola,                  \* self.cola (ids, head first)
    clientes_ingresados,   \* self.clientes_ingresados (the Cliente objects)
    clientes_atendidos,    \* self.clientes_atendidos (ids)
    clientes_abandonaron,  \* self.clientes_abandonaron (ids)
    tiempo_actual,         \* self.tiempo_actual
    contador_clientes,     \* self.contador_clientes
    estadisticas,          \* self.estadisticas
    tiempo_max_espera      \* self.TIEMPO_MAX_ESPERA (an attribute of the
                           \* instance: a caller may set it before stepping)

motor == <<num_boxes, boxes, cola, clientes_ingresados, clientes_atendidos,
           clientes_abandonaron, tiempo_actual, contador_clientes, estadisticas,
           tiempo_max_espera>>

vars == <<pc, arg_num_boxes, num_boxes, boxes, cola, clientes_ingresados,
          clientes_atendidos, clientes_abandonaron, tiempo_actual,
          contador_clientes, estadisticas, tiempo_max_espera>>

----------------------------------------------------------------------------
(* Program constants *)

\* Python's None, for the Optional[int] fields
None == -1

\* float('inf'), the initial value of the two running minima
Inf == 1000000000

\* value of a numeric attribute that __init__ never got to create
NoCreado == -2

\* value of a list, deque or dict attribute that __init__ never got to create:
\* nothing in it, not even the keys of estadisticas
SinCrear == <<>>

COSTO_BOX == 1000

PERDIDA_CLIENTE == 10000

\* the floor of generar_tiempo_atencion, in seconds
MIN_ATENCION == 60

\* lowest and highest accepted station count
MIN_BOXES == 1

MAX_BOXES == 10

(* Bounds of the model.  DURACION_SIMULACION and TIEMPO_MAX_ESPERA are the  *)
(* instance attributes of the same name (4 * 3600 and 30 * 60 in __init__), *)
(* scaled down so that the state space is finite and small; the threshold  *)
(* is kept at the service floor so that waiting customers are both served  *)
(* and lost.                                                               *)
DURACION_SIMULACION == 4

TIEMPO_MAX_ESPERA == 60

\* station counts handed to the constructor
Entradas == (MIN_BOXES - 2) .. (MAX_BOXES + 1)

\* samples of np.random.normal, in tenths of a second: -1.5, 59.9, 60.0, 61.9
Muestras == {-15, 599, 600, 619}

----------------------------------------------------------------------------
(* Entity model *)

Cliente(id, tiempo_ingreso) ==
    [id |-> id, tiempo_ingreso |-> tiempo_ingreso,
     tiempo_inicio_atencion |-> None, tiempo_fin_atencion |-> None,
     box_asignado |-> None, abandono |-> FALSE, tiempo_abandono |-> None]

\* Cliente.tiempo_espera (property)
tiempo_espera(c) ==
    IF c.tiempo_inicio_atencion # None
    THEN c.tiempo_inicio_atencion - c.tiempo_ingreso
    ELSE IF c.abandono /\ c.tiempo_abandono # None
         THEN c.tiempo_abandono - c.tiempo_ingreso
         ELSE None

\* Cliente.tiempo_atencion (property)
tiempo_atencion(c) ==
    IF c.tiempo_inicio_atencion # None /\ c.tiempo_fin_atencion # None
    THEN c.tiempo_fin_atencion - c.tiempo_inicio_atencion
    ELSE None

Box(id) ==
    [id |-> id, ocupado |-> FALSE, cliente_actual |-> None,
     tiempo_fin_atencion |-> None]

\* Python's builtin min and max on two numbers
min(a, b) == IF b < a THEN b ELSE a

max(a, b) == IF b > a THEN b ELSE a

\* int(x) of a float given in tenths: truncation towards zero
int(x10) == IF x10 >= 0 THEN x10 \div 10 ELSE -((-x10) \div 10)

----------------------------------------------------------------------------
(* __init__ *)

\* mutant: the upper limit of the range is not tested
ValidarNumBoxes_SinTope(n) == MIN_BOXES <= n

ValidarNumBoxes(n) == MIN_BOXES <= n /\ n <= MAX_BOXES

EstadisticasIniciales ==
    [clientes_ingresados |-> 0, clientes_atendidos |-> 0,
     clientes_abandonaron |-> 0,
     tiempo_min_atencion |-> Inf, tiempo_max_atencion |-> 0,
     tiempo_min_espera |-> Inf, tiempo_max_espera |-> 0,
     costo_total |-> 0]

Init ==
    /\ pc = "inicio"
    /\ arg_num_boxes \in Entradas
    /\ num_boxes = NoCreado
    /\ boxes = SinCrear
    /\ cola = SinCrear
    /\ clientes_ingresados = SinCrear
    /\ clientes_atendidos = SinCrear
    /\ clientes_abandonaron = SinCrear
    /\ tiempo_actual = NoCreado
    /\ contador_clientes = NoCreado
    /\ estadisticas = SinCrear
    /\ tiempo_max_espera = NoCreado

Constructor ==
    /\ pc = "inicio"
    /\ IF ~ValidarNumBoxes(arg_num_boxes)
       THEN \* raise ValueError before any attribute is set
            /\ pc' = "error"
            /\ UNCHANGED motor
       ELSE /\ pc' = "bucle"
            /\ num_boxes' = arg_num_boxes
            /\ boxes' = [i \in 1..arg_num_boxes |-> Box(i - 1)]
            /\ cola' = <<>>
            /\ clientes_ingresados' = <<>>
            /\ clientes_atendidos' = <<>>
            /\ clientes_abandonaron' = <<>>
            /\ tiempo_actual' = 0
            /\ contador_clientes' = 0
            /\ estadisticas' = EstadisticasIniciales
            /\ tiempo_max_espera' = TIEMPO_MAX_ESPERA
    /\ UNCHANGED arg_num_boxes

----------------------------------------------------------------------------
(* condicion_finalizacion *)

boxes_ocupados == \E i \in 1..Len(boxes) : boxes[i].ocupado

\* mutant: the queue is not looked at
CondicionFinalizacion_SinCola ==
    /\ tiempo_actual >= DURACION_SIMULACION
    /\ ~boxes_ocupados

\* mutant: the horizon tick itself is not yet closing time
CondicionFinalizacion_Estricta ==
    /\ tiempo_actual > DURACION_SIMULACION
    /\ cola = <<>>
    /\ ~boxes_ocupados

CondicionFinalizacion ==
    /\ tiempo_actual >= DURACION_SIMULACION
    /\ cola = <<>>
    /\ ~boxes_ocupados

----------------------------------------------------------------------------
(* generar_tiempo_atencion *)

\* mutant: the sample is not floored
GenerarTiempoAtencion_SinMinimo(muestra) == int(muestra)

GenerarTiempoAtencion(muestra) == max(MIN_ATENCION, int(muestra))

----------------------------------------------------------------------------
(* procesar_llegadas: first phase of simular_paso.  The guard is the test  *)
(* of the while loop of ejecutar_simulacion_rapida.                        *)

\* mutant: the closing tick still admits a customer
PuedeIngresar_Inclusive == tiempo_actual <= DURACION_SIMULACION

\* mutant: customers keep arriving after closing
PuedeIngresar_SinCorte == TRUE

PuedeIngresar == tiempo_actual < DURACION_SIMULACION

\* mutant: deque.appendleft(x)
appendleft(q, x) == <<x>> \o q

\* deque.append(x)
append(q, x) == Append(q, x)

\* the phase, entered when the caller's test seguir lets the step begin
ProcesarLlegadasSi(seguir) ==
    /\ pc = "bucle"
    /\ seguir
    /\ pc' = "asignar"
    /\ \E llega \in BOOLEAN :
         IF PuedeIngresar /\ llega
         THEN LET cliente == Cliente(contador_clientes, tiempo_actual) IN
              /\ contador_clientes' = contador_clientes + 1
              /\ clientes_ingresados' = Append(clientes_ingresados, cliente)
              /\ cola' = append(cola, cliente.id)
              /\ estadisticas' =
                   [estadisticas EXCEPT !.clientes_ingresados = @ + 1]
         ELSE UNCHANGED <<contador_clientes, clientes_ingresados, cola,
                          estadisticas>>
    /\ UNCHANGED <<arg_num_boxes, num_boxes, boxes, clientes_atendidos,
                   clientes_abandonaron, tiempo_actual, tiempo_max_espera>>

\* the phase as the loop of ejecutar_simulacion_rapida reaches it
ProcesarLlegadas == ProcesarLlegadasSi(~CondicionFinalizacion)

----------------------------------------------------------------------------
(* asignar_clientes_a_boxes: second phase *)

\* mutant: the last customer of the queue is never taken
BoxDisponible_SinUltimo(box, q) == ~box.ocupado /\ Len(q) > 1

\* mutant: a box is taken whether or not it is busy
BoxDisponible_Siempre(box, q) == q # <<>>

BoxDisponible(box, q) == ~box.ocupado /\ q # <<>>

\* the for loop from box i on; ms holds the samples still to be drawn
RECURSIVE AsignarDesde(_, _, _, _, _)
AsignarDesde(i, bs, q, cs, ms) ==
    IF i > Len(bs)
    THEN [boxes |-> bs, cola |-> q, clientes |-> cs]
    ELSE IF BoxDisponible(bs[i], q)
         THEN LET cliente == Head(q)
                  ta == GenerarTiempoAtencion(Head(ms))
              IN  AsignarDesde(
                    i + 1,
                    [bs EXCEPT ![i] =
                        [@ EXCEPT !.ocupado = TRUE,
                                  !.cliente_actual = cliente,
                                  !.tiempo_fin_atencion = tiempo_actual + ta]],
                    Tail(q),
                    [cs EXCEPT ![cliente + 1] =
                        [@ EXCEPT !.tiempo_inicio_atencion = tiempo_actual,
                                  !.box_asignado = bs[i].id]],
                    Tail(ms))
         ELSE AsignarDesde(i + 1, bs, q, cs, ms)

\* number of boxes the loop may assign to, an upper limit of the samples drawn
BoxesLibres ==
    Cardinality({i \in 1..Len(boxes) : BoxDisponible(boxes[i], cola)})

\* the phase, with np.random.normal drawing from M
AsignarClientesABoxesCon(M) ==
    /\ pc = "asignar"
    /\ pc' = "finalizacion"
    /\ \E ms \in [1..min(BoxesLibres, Len(cola)) -> M] :
         LET r == AsignarDesde(1, boxes, cola, clientes_ingresados, ms) IN
         /\ boxes' = r.boxes
         /\ cola' = r.cola
         /\ clientes_ingresados' = r.clientes
    /\ UNCHANGED <<arg_num_boxes, num_boxes, clientes_atendidos,
                   clientes_abandonaron, tiempo_actual, contador_clientes,
                   estadisticas, tiempo_max_espera>>

AsignarClientesABoxes == AsignarClientesABoxesCon(Muestras)

----------------------------------------------------------------------------
(* procesar_finalizacion_atencion: third phase *)

\* mutant: the completion tick itself does not count yet
AtencionFinalizada_Estricta(box) ==
    box.ocupado /\ tiempo_actual > box.tiempo_fin_atencion

AtencionFinalizada(box) ==
    box.ocupado /\ tiempo_actual >= box.tiempo_fin_atencion

\* mutant: a wait of zero is skipped, as a falsy value would be
ActualizarEstadisticas_SinCero(est, cliente) ==
    LET ta == tiempo_atencion(cliente)
        te == tiempo_espera(cliente)
        e1 == [est EXCEPT !.clientes_atendidos = @ + 1]
        e2 == IF ta # None /\ ta # 0
              THEN [e1 EXCEPT !.tiempo_min_atencion = min(@, ta),
                              !.tiempo_max_atencion = max(@, ta)]
              ELSE e1
    IN  IF te # None /\ te # 0
        THEN [e2 EXCEPT !.tiempo_min_espera = min(@, te),
                        !.tiempo_max_espera = max(@, te)]
        ELSE e2

\* lines 152-168: the running minima and maxima
ActualizarEstadisticas(est, cliente) ==
    LET ta == tiempo_atencion(cliente)
        te == tiempo_espera(cliente)
        e1 == [est EXCEPT !.clientes_atendidos = @ + 1]
        e2 == IF ta # None /\ ta # 0      \* "if tiempo_atencion:"
              THEN [e1 EXCEPT !.tiempo_min_atencion = min(@, ta),
                              !.tiempo_max_atencion = max(@, ta)]
              ELSE e1
    IN  IF te # None
        THEN [e2 EXCEPT !.tiempo_min_espera = min(@, te),
                        !.tiempo_max_espera = max(@, te)]
        ELSE e2

\* lines 171-173
\* mutant: the completion tick is left behind
LiberarBox_SinFin(box) ==
    [box EXCEPT !.ocupado = FALSE, !.cliente_actual = None]

\* mutant: the reference to the customer is left behind
LiberarBox_SinCliente(box) ==
    [box EXCEPT !.ocupado = FALSE, !.tiempo_fin_atencion = None]

LiberarBox(box) ==
    [box EXCEPT !.ocupado = FALSE, !.cliente_actual = None,
                !.tiempo_fin_atencion = None]

RECURSIVE FinalizarDesde(_, _, _, _, _)
FinalizarDesde(i, bs, cs, at, est) ==
    IF i > Len(bs)
    THEN [boxes |-> bs, clientes |-> cs, atendidos |-> at, estadisticas |-> est]
    ELSE IF AtencionFinalizada(bs[i])
         THEN LET id == bs[i].cliente_actual
                  cliente == [cs[id + 1] EXCEPT
                                 !.tiempo_fin_atencion = tiempo_actual]
              IN  FinalizarDesde(
                    i + 1,
                    [bs EXCEPT ![i] = LiberarBox(@)],
                    [cs EXCEPT ![id + 1] = cliente],
                    Append(at, id),
                    ActualizarEstadisticas(est, cliente))
         ELSE FinalizarDesde(i + 1, bs, cs, at, est)

ProcesarFinalizacionAtencion ==
    /\ pc = "finalizacion"
    /\ pc' = "abandonos"
    /\ LET r == FinalizarDesde(1, boxes, clientes_ingresados,
                               clientes_atendidos, estadisticas) IN
         /\ boxes' = r.boxes
         /\ clientes_ingresados' = r.clientes
         /\ clientes_atendidos' = r.atendidos
         /\ estadisticas' = r.estadisticas
    /\ UNCHANGED <<arg_num_boxes, num_boxes, cola, clientes_abandonaron,
                   tiempo_actual, contador_clientes, tiempo_max_espera>>

----------------------------------------------------------------------------
(* procesar_abandonos: fourth phase *)

\* mutant: the wait is counted one tick too long
DebeAbandonar_Temprano(cliente) ==
    tiempo_actual + 1 - cliente.tiempo_ingreso >= tiempo_max_espera

\* mutant: the threshold itself is still tolerated
DebeAbandonar_Estricto(cliente) ==
    tiempo_actual - cliente.tiempo_ingreso > tiempo_max_espera

\* mutant: a customer stays when a box is free for the next tick
DebeAbandonar_SalvoBoxLibre(cliente) ==
    /\ tiempo_actual - cliente.tiempo_ingreso >= tiempo_max_espera
    /\ \A i \in 1..Len(boxes) : boxes[i].ocupado

\* mutant: two more ticks of patience
DebeAbandonar_Tardio(cliente) ==
    tiempo_actual - cliente.tiempo_ingreso >= tiempo_max_espera + 2

DebeAbandonar(cliente) ==
    tiempo_actual - cliente.tiempo_ingreso >= tiempo_max_espera

\* mutant: the loss is charged as the customer leaves
ContarAbandono_ConCosto(est) ==
    [est EXCEPT !.clientes_abandonaron = @ + 1,
                !.costo_total = @ + PERDIDA_CLIENTE]

\* line 185: the only statistic an abandonment touches
ContarAbandono(est) == [est EXCEPT !.clientes_abandonaron = @ + 1]

\* the first loop, from position i of the queue on
RECURSIVE MarcarDesde(_, _, _, _, _)
MarcarDesde(i, cs, ab, est, rem) ==
    IF i > Len(cola)
    THEN [clientes |-> cs, abandonaron |-> ab, estadisticas |-> est,
          clientes_a_remover |-> rem]
    ELSE LET id == cola[i] IN
         IF DebeAbandonar(cs[id + 1])
         THEN MarcarDesde(
                i + 1,
                [cs EXCEPT ![id + 1] =
                    [@ EXCEPT !.abandono = TRUE,
                              !.tiempo_abandono = tiempo_actual]],
                Append(ab, id),
                ContarAbandono(est),
                Append(rem, id))
         ELSE MarcarDesde(i + 1, cs, ab, est, rem)

\* mutant: deque.pop() in place of deque.remove(x)
remove_pop(q, x) == SubSeq(q, 1, Len(q) - 1)

\* deque.remove(x): drops the first occurrence of x
RECURSIVE remove(_, _)
remove(q, x) ==
    IF q = <<>> THEN <<>>
    ELSE IF Head(q) = x THEN Tail(q)
    ELSE <<Head(q)>> \o remove(Tail(q), x)

\* mutant: the second loop is missing
RemoverTodos_Ninguno(q, rem) == q

\* the second loop: remove every marked customer
RECURSIVE RemoverTodos(_, _)
RemoverTodos(q, rem) ==
    IF rem = <<>> THEN q ELSE RemoverTodos(remove(q, Head(rem)), Tail(rem))

ProcesarAbandonos ==
    /\ pc = "abandonos"
    /\ pc' = "avance"
    /\ LET r == MarcarDesde(1, clientes_ingresados, clientes_abandonaron,
                            estadisticas, <<>>) IN
         /\ clientes_ingresados' = r.clientes
         /\ clientes_abandonaron' = r.abandonaron
         /\ estadisticas' = r.estadisticas
         /\ cola' = RemoverTodos(cola, r.clientes_a_remover)
    /\ UNCHANGED <<arg_num_boxes, num_boxes, boxes, clientes_atendidos,
                   tiempo_actual, contador_clientes, tiempo_max_espera>>

----------------------------------------------------------------------------
(* end of simular_paso: self.tiempo_actual += 1, back to the loop test *)

\* mutant: the clock is clamped at the horizon
SiguienteTiempo_Tope(t) == min(t + 1, DURACION_SIMULACION)

\* mutant: the clock is advanced twice
SiguienteTiempo_Doble(t) == t + 2

SiguienteTiempo(t) == t + 1

AvanzarTiempo ==
    /\ pc = "avance"
    /\ pc' = "bucle"
    /\ tiempo_actual' = SiguienteTiempo(tiempo_actual)
    /\ UNCHANGED <<arg_num_boxes, num_boxes, boxes, cola, clientes_ingresados,
                   clientes_atendidos, clientes_abandonaron, contador_clientes,
                   estadisticas, tiempo_max_espera>>

----------------------------------------------------------------------------
(* calcular_costos, called by ejecutar_simulacion_rapida once the loop ends *)

\* mutant: lost customers are charged at the price of a box
CostoTotal_MismoPrecio(n, abandonaron) ==
    n * COSTO_BOX + Len(abandonaron) * COSTO_BOX

CostoTotal(n, abandonaron) ==
    n * COSTO_BOX + Len(abandonaron) * PERDIDA_CLIENTE

CalcularCostos ==
    /\ pc = "bucle"
    /\ CondicionFinalizacion
    /\ pc' = "fin"
    /\ estadisticas' =
         [estadisticas EXCEPT
            !.costo_total = CostoTotal(num_boxes, clientes_abandonaron)]
    /\ UNCHANGED <<arg_num_boxes, num_boxes, boxes, cola, clientes_ingresados,
                   clientes_atendidos, clientes_abandonaron, tiempo_actual,
                   contador_clientes, tiempo_max_espera>>

----------------------------------------------------------------------------
Next ==
    \/ Constructor
    \/ ProcesarLlegadas
    \/ AsignarClientesABoxes
    \/ ProcesarFinalizacionAtencion
    \/ ProcesarAbandonos
    \/ AvanzarTiempo
    \/ CalcularCostos

Spec == Init /\ [][Next]_vars

\* simular_paso and the driver loop always run to completion
FairSpec == Spec /\ WF_vars(Next)

\* the engine exists: __init__ returned normally
Construido == pc \notin {"inicio", "error"}

----------------------------------------------------------------------------
(* A caller that keeps calling simular_paso after the run has finished *)

\* last tick at which a step beyond the finished condition may begin
MAX_TICK == 66

InitLibre == Init /\ arg_num_boxes \in 1..3

PasoLibre == ProcesarLlegadasSi(~CondicionFinalizacion \/ tiempo_actual < MAX_TICK)

NextLibre ==
    \/ Constructor
    \/ PasoLibre
    \/ AsignarClientesABoxes
    \/ ProcesarFinalizacionAtencion
    \/ ProcesarAbandonos
    \/ AvanzarTiempo
    \/ CalcularCostos

SpecLibre == InitLibre /\ [][NextLibre]_vars

----------------------------------------------------------------------------
(* Scenario A: every service duration forced to 120 s, one to three boxes, *)
(* arrivals free.                                                          *)

\* the one sample np.random.normal returns: 120.0
MuestrasA == {1200}

InitA == Init /\ arg_num_boxes \in 1..3

AsignarForzadoA == AsignarClientesABoxesCon(MuestrasA)

NextA ==
    \/ Constructor
    \/ ProcesarLlegadas
    \/ AsignarForzadoA
    \/ ProcesarFinalizacionAtencion
    \/ ProcesarAbandonos
    \/ AvanzarTiempo
    \/ CalcularCostos

SpecA == InitA /\ [][NextA]_vars

----------------------------------------------------------------------------
(* Scenario B: the engine built with one or two boxes, its attribute       *)
(* TIEMPO_MAX_ESPERA then set to 10, every service duration forced to      *)
(* 3600 s, arrivals free.                                                  *)

\* the one sample np.random.normal returns: 3600.0
MuestrasB == {36000}

InitB ==
    /\ pc = "bucle"
    /\ arg_num_boxes \in 1..2
    /\ num_boxes = arg_num_boxes
    /\ boxes = [i \in 1..arg_num_boxes |-> Box(i - 1)]
    /\ cola = <<>>
    /\ clientes_ingresados = <<>>
    /\ clientes_atendidos = <<>>
    /\ clientes_abandonaron = <<>>
    /\ tiempo_actual = 0
    /\ contador_clientes = 0
    /\ estadisticas = EstadisticasIniciales
    /\ tiempo_max_espera = 10

AsignarForzadoB == AsignarClientesABoxesCon(MuestrasB)

NextB ==
    \/ ProcesarLlegadas
    \/ AsignarForzadoB
    \/ ProcesarFinalizacionAtencion
    \/ ProcesarAbandonos
    \/ AvanzarTiempo
    \/ CalcularCostos

SpecB == InitB /\ [][NextB]_vars

----------------------------------------------------------------------------
(* Properties *)

Ids == 1..Len(clientes_ingresados)

NumOcupados == Cardinality({i \in 1..Len(boxes) : boxes[i].ocupado})

NumAbandonos == Cardinality({k \in Ids : clientes_ingresados[k].abandono})

Atendido(id) == clientes_ingresados[id + 1]

\* C1: conservation of customers.  After every phase of every step, the
\* customers in the queue, in the boxes, served and lost add up to the
\* customers that have arrived, by the records and by the counters alike.
C1_Conservacion ==
    Construido =>
      /\ Len(cola) + NumOcupados + Len(clientes_atendidos)
           + Len(clientes_abandonaron) = estadisticas.clientes_ingresados
      /\ Len(cola) + NumOcupados + estadisticas.clientes_atendidos
           + estadisticas.clientes_abandonaron
           = estadisticas.clientes_ingresados

\* a customer in each of the four places at once
C1_Witness ==
    /\ Construido
    /\ Len(cola) >= 1
    /\ NumOcupados >= 1
    /\ Len(clientes_atendidos) >= 1
    /\ Len(clientes_abandonaron) >= 1

\* C2: no customer has both a service start and the abandonment flag.
C2_InicioOAbandono ==
    Construido =>
      \A k \in Ids :
        ~(/\ clientes_ingresados[k].tiempo_inicio_atencion # None
          /\ clientes_ingresados[k].abandono)

\* one customer was lost and a customer who arrived after it is being served
C2_Witness ==
    /\ Construido
    /\ \E k \in Ids, j \in Ids :
         /\ k < j
         /\ clientes_ingresados[k].abandono
         /\ clientes_ingresados[j].tiempo_inicio_atencion # None

\* C3: the loop of ejecutar_simulacion_rapida is left exactly when the tick
\* has reached the horizon, the queue is empty and no box is occupied, and
\* the state it is left in is such a state.
C3_Finalizacion ==
    /\ [](pc = "fin" =>
            /\ tiempo_actual >= DURACION_SIMULACION
            /\ Len(cola) = 0
            /\ \A i \in 1..Len(boxes) : ~boxes[i].ocupado)
    /\ [][pc = "bucle" =>
            (pc' = "fin" <=>
               /\ tiempo_actual >= DURACION_SIMULACION
               /\ Len(cola) = 0
               /\ \A i \in 1..Len(boxes) : ~boxes[i].ocupado)]_vars

\* the loop ended after draining customers past the horizon
C3_Witness ==
    /\ pc = "fin"
    /\ tiempo_actual > DURACION_SIMULACION
    /\ Len(clientes_atendidos) >= 1
    /\ Len(clientes_abandonaron) >= 1

\* C4: hard arrival cutoff.  Every customer arrived before the horizon, and
\* no step taken at or after the horizon changes the arrivals.
C4_CorteDeIngreso ==
    /\ [](Construido =>
            \A k \in Ids :
              clientes_ingresados[k].tiempo_ingreso < DURACION_SIMULACION)
    /\ [][(Construido /\ tiempo_actual >= DURACION_SIMULACION) =>
            /\ estadisticas'.clientes_ingresados
                 = estadisticas.clientes_ingresados
            /\ Len(clientes_ingresados') = Len(clientes_ingresados)
            /\ contador_clientes' = contador_clientes]_vars

\* the arrival phase has just run past the horizon with customers waiting
C4_Witness ==
    /\ pc = "asignar"
    /\ tiempo_actual > DURACION_SIMULACION
    /\ Len(cola) >= 1
    /\ NumOcupados >= 1

\* C5: every served customer was in service for at least 60 seconds, and
\* its service did not end before it started.
C5_MinimoAtencion ==
    Construido =>
      \A n \in 1..Len(clientes_atendidos) :
        LET c == Atendido(clientes_atendidos[n]) IN
        /\ c.tiempo_inicio_atencion # None
        /\ c.tiempo_inicio_atencion <= c.tiempo_fin_atencion
        /\ c.tiempo_fin_atencion - c.tiempo_inicio_atencion >= 60

\* one customer served for the floor and one for longer
C5_Witness ==
    /\ Construido
    /\ \E n, m \in 1..Len(clientes_atendidos) :
         /\ tiempo_atencion(Atendido(clientes_atendidos[n])) = 60
         /\ tiempo_atencion(Atendido(clientes_atendidos[m])) > 60

\* C6: every lost customer had waited at least the threshold.
C6_UmbralAbandono ==
    Construido =>
      \A n \in 1..Len(clientes_abandonaron) :
        LET c == Atendido(clientes_abandonaron[n]) IN
        /\ c.abandono
        /\ c.tiempo_abandono - c.tiempo_ingreso >= TIEMPO_MAX_ESPERA

\* two customers lost, at different ticks
C6_Witness ==
    /\ Construido
    /\ \E n, m \in 1..Len(clientes_abandonaron) :
         Atendido(clientes_abandonaron[n]).tiempo_abandono
           < Atendido(clientes_abandonaron[m]).tiempo_abandono

\* C7: station consistency.  For every box, occupied iff it has a customer
\* iff it has a completion tick.
C7_BoxConsistente ==
    Construido =>
      \A i \in 1..Len(boxes) :
        /\ boxes[i].ocupado <=> boxes[i].cliente_actual # None
        /\ boxes[i].cliente_actual # None
             <=> boxes[i].tiempo_fin_atencion # None

\* between two steps, a box that has served is free beside a busy one
C7_Witness ==
    /\ pc = "bucle"
    /\ \E i, j \in 1..Len(boxes) :
         /\ boxes[i].ocupado
         /\ ~boxes[j].ocupado
         /\ \E k \in Ids :
              /\ clientes_ingresados[k].box_asignado = boxes[j].id
              /\ clientes_ingresados[k].tiempo_fin_atencion # None

\* C8: after calcular_costos on the finished run the total cost is
\* 1000 per box plus 10000 per lost customer; 10000 * lost + 10000 with
\* ten boxes.
C8_CostoTotal ==
    pc = "fin" =>
      /\ estadisticas.costo_total = num_boxes * 1000 + NumAbandonos * 10000
      /\ num_boxes = 10 =>
           estadisticas.costo_total = 10000 * NumAbandonos + 10000

\* a finished run that lost customers
C8_Witness ==
    /\ pc = "fin"
    /\ NumAbandonos >= 2

\* C9: the constructor rejects every station count outside 1..10 and then
\* creates nothing; it accepts every count n in 1..10 and then creates n free
\* boxes with ids 0..n-1, an empty queue and tick 0.
C9_Construccion ==
    [][pc = "inicio" =>
         IF arg_num_boxes \in 1..10
         THEN /\ pc' = "bucle"
              /\ num_boxes' = arg_num_boxes
              /\ Len(boxes') = arg_num_boxes
              /\ \A i \in 1..arg_num_boxes :
                   boxes'[i] = [id |-> i - 1, ocupado |-> FALSE,
                                cliente_actual |-> None,
                                tiempo_fin_atencion |-> None]
              /\ cola' = <<>>
              /\ tiempo_actual' = 0
         ELSE /\ pc' = "error"
              /\ motor' = motor]_vars

\* a count above the range was rejected
C9_Witness ==
    /\ pc = "error"
    /\ arg_num_boxes > 10
    /\ num_boxes = NoCreado
    /\ estadisticas = SinCrear
    /\ tiempo_max_espera = NoCreado

\* C10: termination.  From every state of the engine the driver loop
\* reaches its end, with the termination predicate true.
C10_Terminacion ==
    Construido ~> (pc = "fin" /\ CondicionFinalizacion)

\* the run ended long after the horizon, after a full drain
C10_Witness ==
    /\ pc = "fin"
    /\ tiempo_actual > DURACION_SIMULACION + 2 * MIN_ATENCION

\* C12: a customer who arrives at tick t to an empty queue and a free box
\* starts service in that tick, with wait 0, in a box scheduled for t + d,
\* and is recorded as served at that scheduled tick; with every duration
\* forced to d = 120, one box and a single arrival at tick 0 the customer is
\* served from 0 to 120, the served counter is 1 and nobody is lost.
C12_EscenarioA ==
    /\ [][(/\ pc = "asignar"
           /\ Len(cola) = 1
           /\ clientes_ingresados[cola[1] + 1].tiempo_ingreso = tiempo_actual
           /\ \E i \in 1..Len(boxes) : ~boxes[i].ocupado)
          => LET id == cola[1]
                 c == clientes_ingresados'[id + 1]
             IN  /\ cola' = <<>>
                 /\ c.tiempo_inicio_atencion = tiempo_actual
                 /\ tiempo_espera(c) = 0
                 /\ c.box_asignado # None
                 /\ boxes'[c.box_asignado + 1].cliente_actual = id
                 /\ boxes'[c.box_asignado + 1].tiempo_fin_atencion
                      = tiempo_actual + 120]_vars
    /\ [][pc = "finalizacion" =>
            \A i \in 1..Len(boxes) :
              (boxes[i].ocupado /\ ~boxes'[i].ocupado) =>
                /\ clientes_ingresados'[boxes[i].cliente_actual + 1]
                     .tiempo_fin_atencion = boxes[i].tiempo_fin_atencion
                /\ tiempo_actual = boxes[i].tiempo_fin_atencion]_vars
    /\ [](Construido =>
            \A n \in 1..Len(clientes_atendidos) :
              LET c == Atendido(clientes_atendidos[n]) IN
              c.tiempo_fin_atencion = c.tiempo_inicio_atencion + 120)
    /\ []((/\ pc = "fin"
           /\ num_boxes = 1
           /\ Len(clientes_ingresados) = 1
           /\ clientes_ingresados[1].tiempo_ingreso = 0)
          => /\ clientes_ingresados[1].tiempo_inicio_atencion = 0
             /\ clientes_ingresados[1].tiempo_fin_atencion = 120
             /\ estadisticas.clientes_atendidos = 1
             /\ clientes_atendidos = <<0>>
             /\ estadisticas.clientes_abandonaron = 0
             /\ clientes_abandonaron = <<>>)

\* scenario A itself has run to its end
C12_Witness ==
    /\ pc = "fin"
    /\ num_boxes = 1
    /\ Len(clientes_ingresados) = 1
    /\ clientes_ingresados[1].tiempo_ingreso = 0
    /\ clientes_ingresados[1].tiempo_fin_atencion = 120
    /\ tiempo_actual = 121

\* C13: a customer still queued at the abandonment phase of tick a + W,
\* where a is its arrival tick and W the threshold, is marked abandoned at
\* that tick, leaves the queue and is never served; no queued customer
\* outlives the threshold.  With one box, arrivals at ticks 0 and 1, every
\* duration 3600 and W = 10 the second customer is lost at tick 11 while the
\* first is in the box.
C13_EscenarioB ==
    /\ [][pc = "abandonos" =>
            \A j \in 1..Len(cola) :
              LET id == cola[j]
                  a == clientes_ingresados[id + 1].tiempo_ingreso
                  c == clientes_ingresados'[id + 1]
              IN  tiempo_actual - a >= tiempo_max_espera =>
                    /\ c.abandono
                    /\ c.tiempo_abandono = a + tiempo_max_espera
                    /\ c.tiempo_inicio_atencion = None
                    /\ \A k \in 1..Len(cola') : cola'[k] # id]_vars
    /\ [](Construido =>
            /\ \A n \in 1..Len(clientes_abandonaron) :
                 LET c == Atendido(clientes_abandonaron[n]) IN
                 /\ c.tiempo_abandono = c.tiempo_ingreso + tiempo_max_espera
                 /\ c.tiempo_inicio_atencion = None
                 /\ c.tiempo_fin_atencion = None
                 /\ c.box_asignado = None
            /\ \A j \in 1..Len(cola) :
                 LET a == clientes_ingresados[cola[j] + 1].tiempo_ingreso IN
                 /\ tiempo_actual - a <= tiempo_max_espera
                 /\ pc = "avance" => tiempo_actual - a < tiempo_max_espera)
    /\ []((/\ num_boxes = 1
           /\ tiempo_max_espera = 10
           /\ Len(clientes_ingresados) >= 2
           /\ clientes_ingresados[1].tiempo_ingreso = 0
           /\ clientes_ingresados[2].tiempo_ingreso = 1)
          => /\ clientes_ingresados[2].abandono
                  <=> (tiempo_actual > 11
                         \/ (tiempo_actual = 11 /\ pc = "avance"))
             /\ clientes_ingresados[2].abandono =>
                  /\ clientes_ingresados[2].tiempo_abandono = 11
                  /\ clientes_ingresados[2].tiempo_inicio_atencion = None
             /\ tiempo_actual <= 11 =>
                  /\ boxes[1].ocupado
                  /\ boxes[1].cliente_actual = 0
                  /\ boxes[1].tiempo_fin_atencion = 3600)

\* scenario B at the end of tick 11: the second customer has just been lost
C13_Witness ==
    /\ pc = "avance"
    /\ tiempo_actual = 11
    /\ num_boxes = 1
    /\ tiempo_max_espera = 10
    /\ Len(clientes_ingresados) = 2
    /\ clientes_ingresados[1].tiempo_ingreso = 0
    /\ clientes_ingresados[2].tiempo_ingreso = 1
    /\ clientes_ingresados[2].abandono
    /\ clientes_ingresados[2].tiempo_abandono = 11
    /\ clientes_abandonaron = <<1>>
    /\ boxes[1].cliente_actual = 0

\* C14: while no customer has arrived the driver loop goes on below the
\* horizon and is left exactly at tick = horizon; the run then ends with the
\* three counters at 0 and, after calcular_costos, a total cost of exactly
\* 1000 per box, for every accepted number of boxes.
C14_EscenarioC ==
    /\ [][(pc = "bucle" /\ estadisticas.clientes_ingresados = 0) =>
            (pc' = "fin" <=> tiempo_actual = DURACION_SIMULACION)]_vars
    /\ []((Construido /\ estadisticas.clientes_ingresados = 0) =>
            /\ tiempo_actual <= DURACION_SIMULACION
            /\ cola = <<>>
            /\ NumOcupados = 0
            /\ clientes_ingresados = <<>>)
    /\ []((pc = "fin" /\ estadisticas.clientes_ingresados = 0) =>
            /\ tiempo_actual = DURACION_SIMULACION
            /\ estadisticas.clientes_atendidos = 0
            /\ estadisticas.clientes_abandonaron = 0
            /\ num_boxes \in 1..10
            /\ estadisticas.costo_total = num_boxes * 1000)

\* ten idle boxes at closing time
C14_Witness ==
    /\ pc = "fin"
    /\ estadisticas.clientes_ingresados = 0
    /\ num_boxes = 10
    /\ estadisticas.costo_total = 10000
    /\ tiempo_actual = DURACION_SIMULACION

\* C15: one simular_paso is one tick.  The phases run in the order arrival,
\* assignment, completion, abandonment, each doing only its own work and
\* stamping the same tiempo_actual; the clock then goes up by exactly 1, and
\* nothing else ever changes it.
C15_UnPasoUnTick ==
    [][Construido =>
         /\ \/ pc = "bucle" /\ pc' \in {"asignar", "fin"}
            \/ pc = "asignar" /\ pc' = "finalizacion"
            \/ pc = "finalizacion" /\ pc' = "abandonos"
            \/ pc = "abandonos" /\ pc' = "avance"
            \/ pc = "avance" /\ pc' = "bucle"
         /\ IF pc = "avance"
            THEN tiempo_actual' = tiempo_actual + 1
            ELSE tiempo_actual' = tiempo_actual
         \* an arrival happens in the first phase only
         /\ Len(clientes_ingresados') # Len(clientes_ingresados) =>
              /\ pc = "bucle" /\ pc' = "asignar"
              /\ Len(clientes_ingresados') = Len(clientes_ingresados) + 1
              /\ clientes_ingresados'[Len(clientes_ingresados')].tiempo_ingreso
                   = tiempo_actual
         \* a service starts in the second phase only
         /\ \A k \in Ids :
              clientes_ingresados'[k].tiempo_inicio_atencion
                  # clientes_ingresados[k].tiempo_inicio_atencion =>
                /\ pc = "asignar"
                /\ clientes_ingresados'[k].tiempo_inicio_atencion
                     = tiempo_actual
         \* a service ends in the third phase only
         /\ \A k \in Ids :
              clientes_ingresados'[k].tiempo_fin_atencion
                  # clientes_ingresados[k].tiempo_fin_atencion =>
                /\ pc = "finalizacion"
                /\ clientes_ingresados'[k].tiempo_fin_atencion = tiempo_actual
         /\ clientes_atendidos' # clientes_atendidos => pc = "finalizacion"
         \* a customer is lost in the fourth phase only
         /\ \A k \in Ids :
              clientes_ingresados'[k].tiempo_abandono
                  # clientes_ingresados[k].tiempo_abandono =>
                /\ pc = "abandonos"
                /\ clientes_ingresados'[k].tiempo_abandono = tiempo_actual
         /\ clientes_abandonaron' # clientes_abandonaron => pc = "abandonos"
         /\ boxes' # boxes => pc \in {"asignar", "finalizacion"}
         /\ cola' # cola => pc \in {"bucle", "asignar", "abandonos"}]_vars

\* a step has just ended in which a customer was lost, after one that
\* arrived and started in the same tick was served
C15_Witness ==
    /\ pc = "bucle"
    /\ \E k \in Ids :
         clientes_ingresados[k].tiempo_abandono = tiempo_actual - 1
    /\ \E k \in Ids :
         /\ clientes_ingresados[k].tiempo_inicio_atencion
              = clientes_ingresados[k].tiempo_ingreso
         /\ clientes_ingresados[k].tiempo_fin_atencion # None

\* C16: the queue is first in, first out.  Ids and arrival ticks strictly
\* increase from its head to its tail; assignment takes customers off the
\* head only, and exactly those whose service starts; abandonment takes out
\* exactly the customers it marks and keeps the others in order; so of two
\* customers who started service, the one who arrived first did not start
\* later.
C16_Fifo ==
    /\ [](Construido =>
            /\ \A j, k \in 1..Len(cola) :
                 j < k =>
                   /\ cola[j] < cola[k]
                   /\ clientes_ingresados[cola[j] + 1].tiempo_ingreso
                        < clientes_ingresados[cola[k] + 1].tiempo_ingreso
            /\ \A j, k \in Ids :
                 (/\ clientes_ingresados[j].tiempo_inicio_atencion # None
                  /\ clientes_ingresados[k].tiempo_inicio_atencion # None
                  /\ clientes_ingresados[j].tiempo_ingreso
                       < clientes_ingresados[k].tiempo_ingreso)
                 => clientes_ingresados[j].tiempo_inicio_atencion
                      <= clientes_ingresados[k].tiempo_inicio_atencion)
    /\ [][pc = "asignar" =>
            \E n \in 0..Len(cola) :
              /\ cola' = SubSeq(cola, n + 1, Len(cola))
              /\ \A j \in 1..Len(cola) :
                   j <= n <=>
                     clientes_ingresados'[cola[j] + 1].tiempo_inicio_atencion
                       # None]_vars
    /\ [][pc = "abandonos" =>
            cola' = SelectSeq(cola,
                      LAMBDA id : ~clientes_ingresados'[id + 1].abandono)]_vars

\* two customers wait behind one who had to wait for the box himself
C16_Witness ==
    /\ Construido
    /\ Len(cola) >= 2
    /\ \E j, k \in Ids :
         /\ clientes_ingresados[j].tiempo_inicio_atencion # None
         /\ clientes_ingresados[k].tiempo_inicio_atencion
              > clientes_ingresados[k].tiempo_ingreso
         /\ clientes_ingresados[j].tiempo_inicio_atencion
              < clientes_ingresados[k].tiempo_inicio_atencion

\* number of positions of the sequence q that hold x
Veces(q, x) == Cardinality({j \in 1..Len(q) : q[j] = x})

\* number of boxes whose cliente_actual is x
EnBoxes(x) == Cardinality({i \in 1..Len(boxes) : boxes[i].cliente_actual = x})

\* C17: every customer that has arrived is in exactly one place: once in
\* the queue, in one box, in the served record or in the abandoned record;
\* nothing else is in those places, and a customer that has left the queue
\* never returns to it.
C17_UnSoloLugar ==
    /\ [](Construido =>
            /\ \A k \in Ids :
                 /\ clientes_ingresados[k].id = k - 1
                 /\ Veces(cola, k - 1) + EnBoxes(k - 1)
                      + Veces(clientes_atendidos, k - 1)
                      + Veces(clientes_abandonaron, k - 1) = 1
            /\ \A j \in 1..Len(cola) : cola[j] + 1 \in Ids
            /\ \A j \in 1..Len(clientes_atendidos) :
                 clientes_atendidos[j] + 1 \in Ids
            /\ \A j \in 1..Len(clientes_abandonaron) :
                 clientes_abandonaron[j] + 1 \in Ids
            /\ \A i \in 1..Len(boxes) :
                 boxes[i].cliente_actual # None =>
                   boxes[i].cliente_actual + 1 \in Ids)
    /\ [][Construido =>
            \A k \in Ids :
              Veces(cola, k - 1) = 0 => Veces(cola', k - 1) = 0]_vars

\* two boxes busy, a customer waiting and one already served
C17_Witness ==
    /\ Construido
    /\ NumOcupados >= 2
    /\ Len(cola) >= 1
    /\ Len(clientes_atendidos) >= 1

\* indices of the boxes that are free
Libres == {i \in 1..Len(boxes) : ~boxes[i].ocupado}

\* position of the free box i among the free boxes, in list order
Turno(i) == Cardinality({j \in Libres : j <= i})

\* C18: the boxes are listed by increasing id, and the assignment phase
\* gives the queue head to the first free box, the next customer to the
\* next free box, and so on; every other box, occupied ones included, is
\* left as it was; after the phase the queue is empty or every box is
\* occupied.
C18_OrdenDeAsignacion ==
    /\ [](Construido => \A i \in 1..Len(boxes) : boxes[i].id = i - 1)
    /\ [][pc = "asignar" =>
            /\ \A i \in 1..Len(boxes) :
                 IF i \in Libres /\ Turno(i) <= Len(cola)
                 THEN /\ boxes'[i].ocupado
                      /\ boxes'[i].cliente_actual = cola[Turno(i)]
                      /\ boxes'[i].tiempo_fin_atencion # None
                      /\ boxes'[i].tiempo_fin_atencion > tiempo_actual
                      /\ clientes_ingresados'[cola[Turno(i)] + 1].box_asignado
                           = boxes[i].id
                 ELSE boxes'[i] = boxes[i]
            /\ Len(cola') = max(0, Len(cola) - Cardinality(Libres))
            /\ \/ cola' = <<>>
               \/ \A i \in 1..Len(boxes) : boxes'[i].ocupado]_vars

\* the phase has just given two waiting customers to two boxes, the earlier
\* customer to the lower box
C18_Witness ==
    /\ Construido
    /\ pc = "finalizacion"
    /\ \E i, j \in 1..Len(boxes) :
         /\ i < j
         /\ boxes[i].ocupado
         /\ boxes[j].ocupado
         /\ boxes[i].cliente_actual < boxes[j].cliente_actual
         /\ \A b \in {i, j} :
              LET c == clientes_ingresados[boxes[b].cliente_actual + 1] IN
              /\ c.tiempo_inicio_atencion = tiempo_actual
              /\ c.tiempo_ingreso < tiempo_actual

\* service end - service start of every served customer
Atenciones ==
    {clientes_ingresados[clientes_atendidos[j] + 1].tiempo_fin_atencion
       - clientes_ingresados[clientes_atendidos[j] + 1].tiempo_inicio_atencion :
       j \in 1..Len(clientes_atendidos)}

\* service start - arrival of every served customer
Esperas ==
    {clientes_ingresados[clientes_atendidos[j] + 1].tiempo_inicio_atencion
       - clientes_ingresados[clientes_atendidos[j] + 1].tiempo_ingreso :
       j \in 1..Len(clientes_atendidos)}

Minimo(S) == CHOOSE x \in S : \A y \in S : x <= y

Maximo(S) == CHOOSE x \in S : \A y \in S : x >= y

\* C19: the running statistics equal a rescan of the served record: the
\* service minimum and maximum are those of (end - start), the wait minimum
\* and maximum are those of (start - arrival), over the served customers
\* only; with nobody served they hold the initial infinity and zero; the
\* three counters are the sizes of the three records; the abandonment phase
\* does not touch the minima and maxima.
C19_EstadisticasRescan ==
    /\ [](Construido =>
            /\ estadisticas.clientes_ingresados = Len(clientes_ingresados)
            /\ estadisticas.clientes_atendidos = Len(clientes_atendidos)
            /\ estadisticas.clientes_abandonaron = Len(clientes_abandonaron)
            /\ IF clientes_atendidos = <<>>
               THEN /\ estadisticas.tiempo_min_atencion = Inf
                    /\ estadisticas.tiempo_max_atencion = 0
                    /\ estadisticas.tiempo_min_espera = Inf
                    /\ estadisticas.tiempo_max_espera = 0
               ELSE /\ estadisticas.tiempo_min_atencion = Minimo(Atenciones)
                    /\ estadisticas.tiempo_max_atencion = Maximo(Atenciones)
                    /\ estadisticas.tiempo_min_espera = Minimo(Esperas)
                    /\ estadisticas.tiempo_max_espera = Maximo(Esperas))
    /\ [][pc = "abandonos" =>
            /\ estadisticas'.tiempo_min_atencion
                 = estadisticas.tiempo_min_atencion
            /\ estadisticas'.tiempo_max_atencion
                 = estadisticas.tiempo_max_atencion
            /\ estadisticas'.tiempo_min_espera = estadisticas.tiempo_min_espera
            /\ estadisticas'.tiempo_max_espera
                 = estadisticas.tiempo_max_espera]_vars

\* customers served with different service times and different waits, one
\* of them without waiting, and a customer who abandoned after a longer wait
C19_Witness ==
    /\ Construido
    /\ Len(clientes_atendidos) >= 2
    /\ estadisticas.tiempo_min_atencion < estadisticas.tiempo_max_atencion
    /\ estadisticas.tiempo_min_espera = 0
    /\ estadisticas.tiempo_max_espera > 0
    /\ \E j \in 1..Len(clientes_abandonaron) :
         LET c == clientes_ingresados[clientes_abandonaron[j] + 1] IN
         c.tiempo_abandono - c.tiempo_ingreso > estadisticas.tiempo_max_espera

\* C20: the total cost stays at its initial 0 through every phase of every
\* step, abandonments included; the only transition that changes it is
\* calcular_costos, and calcular_costos changes nothing but that entry.
C20_CostoSoloAlFinal ==
    /\ [](Construido /\ pc # "fin" => estadisticas.costo_total = 0)
    /\ [][Construido /\ estadisticas'.costo_total # estadisticas.costo_total
            => pc = "bucle" /\ pc' = "fin"]_vars
    /\ [][pc' = "fin" =>
            /\ estadisticas' =
                 [estadisticas EXCEPT !.costo_total = estadisticas'.costo_total]
            /\ UNCHANGED <<num_boxes, boxes, cola, clientes_ingresados,
                           clientes_atendidos, clientes_abandonaron,
                           tiempo_actual, contador_clientes,
                           tiempo_max_espera>>]_vars

\* the cost has been written after a run in which customers were served and
\* others abandoned
C20_Witness ==
    /\ pc = "fin"
    /\ estadisticas.costo_total > 0
    /\ estadisticas.clientes_abandonaron >= 1
    /\ estadisticas.clientes_atendidos >= 1

\* C21: the finished condition is stable under further calls of
\* simular_paso: from a state in which it holds, every phase of a step
\* leaves it holding and changes no box, queue, record, counter or
\* statistic; only the clock moves, by one, at the end of the step.
C21_FinEstable ==
    [][Construido /\ pc # "fin" /\ pc' # "fin" /\ CondicionFinalizacion =>
         /\ CondicionFinalizacion'
         /\ UNCHANGED <<num_boxes, boxes, cola, clientes_ingresados,
                        clientes_atendidos, clientes_abandonaron,
                        contador_clientes, estadisticas, tiempo_max_espera>>
         /\ tiempo_actual' =
              IF pc = "avance" THEN tiempo_actual + 1 ELSE tiempo_actual]_vars

\* a finished run with served and abandoned customers, stepped at least
\* once more since the step in which its last customer left
C21_Witness ==
    /\ pc = "bucle"
    /\ CondicionFinalizacion
    /\ clientes_atendidos # <<>>
    /\ clientes_abandonaron # <<>>
    /\ \A k \in Ids :
         /\ clientes_ingresados[k].tiempo_fin_atencion <= tiempo_actual - 3
         /\ clientes_ingresados[k].tiempo_abandono <= tiempo_actual - 3

\* the wait of the customer at position j of the queue, as procesar_abandonos
\* measures it (line 180), read at the current clock
EsperaEnCola(j) == tiempo_actual - clientes_ingresados[cola[j] + 1].tiempo_ingreso

\* every customer that has started service waited at most the threshold, and
\* so does the recorded maximum wait
EsperaAcotada ==
    /\ \A k \in Ids :
         clientes_ingresados[k].tiempo_inicio_atencion # None =>
           clientes_ingresados[k].tiempo_inicio_atencion
             - clientes_ingresados[k].tiempo_ingreso <= tiempo_max_espera
    /\ estadisticas.tiempo_max_espera <= tiempo_max_espera

\* C22, as stated: every customer that starts service waited at most the
\* abandonment threshold, the recorded maximum wait never exceeds it, and
\* when a step has ended no customer in the queue has a wait >= the
\* threshold.
C22_Original ==
    Construido =>
      /\ EsperaAcotada
      /\ pc = "bucle" =>
           \A j \in 1..Len(cola) : EsperaEnCola(j) < tiempo_max_espera

\* C22, amended: every customer that starts service waited at most the
\* abandonment threshold and the recorded maximum wait never exceeds it;
\* right after the abandonment phase, at the tick of the step, every queued
\* customer has a wait below the threshold; once the step has advanced the
\* clock the wait is at most the threshold, and it can equal it.
C22_EsperaMaxima ==
    Construido =>
      /\ EsperaAcotada
      /\ pc = "avance" =>
           \A j \in 1..Len(cola) : EsperaEnCola(j) < tiempo_max_espera
      /\ pc = "bucle" =>
           \A j \in 1..Len(cola) : EsperaEnCola(j) <= tiempo_max_espera

\* a step has ended with a customer in the queue whose wait equals the
\* threshold, while another customer started service after waiting exactly
\* the threshold
C22_Witness ==
    /\ Construido
    /\ pc = "bucle"
    /\ \E j \in 1..Len(cola) : EsperaEnCola(j) = tiempo_max_espera
    /\ \E k \in Ids :
         /\ clientes_ingresados[k].tiempo_inicio_atencion # None
         /\ clientes_ingresados[k].tiempo_inicio_atencion
              - clientes_ingresados[k].tiempo_ingreso = tiempo_max_espera

\* C23: a box freed by the completion phase of tick t takes no customer
\* before tick t + 1: of two customers served by the same box, the later
\* one starts strictly after the earlier one has ended, and the box is
\* still free when the step of tick t ends; a queued customer whose wait has
\* reached the threshold at tick t abandons at tick t, whether or not a box
\* was freed in that tick.
C23_BoxLiberado ==
    /\ [](Construido =>
            /\ \A j, k \in Ids :
                 LET cj == clientes_ingresados[j]
                     ck == clientes_ingresados[k]
                 IN  ( /\ j # k
                       /\ cj.box_asignado # None
                       /\ cj.box_asignado = ck.box_asignado
                       /\ cj.tiempo_inicio_atencion
                            <= ck.tiempo_inicio_atencion ) =>
                       /\ cj.tiempo_fin_atencion # None
                       /\ ck.tiempo_inicio_atencion > cj.tiempo_fin_atencion
            /\ \A k \in Ids :
                 ( /\ pc \in {"abandonos", "avance"}
                   /\ clientes_ingresados[k].tiempo_fin_atencion
                        = tiempo_actual ) =>
                   ~boxes[clientes_ingresados[k].box_asignado + 1].ocupado)
    /\ [][pc = "abandonos" =>
            \A j \in 1..Len(cola) :
              LET antes == clientes_ingresados[cola[j] + 1]
                  despues == clientes_ingresados'[cola[j] + 1]
              IN  IF tiempo_actual - antes.tiempo_ingreso >= tiempo_max_espera
                  THEN /\ despues.abandono
                       /\ despues.tiempo_abandono = tiempo_actual
                       /\ despues.tiempo_inicio_atencion = None
                       /\ Veces(cola', cola[j]) = 0
                  ELSE /\ ~despues.abandono
                       /\ Veces(cola', cola[j]) = 1]_vars

\* a box ended a service at tick t, a customer abandoned at that same tick
\* t, and the box took its next customer at tick t + 1
C23_Witness ==
    /\ Construido
    /\ \E j, k, a \in Ids :
         /\ clientes_ingresados[j].tiempo_fin_atencion # None
         /\ clientes_ingresados[k].box_asignado
              = clientes_ingresados[j].box_asignado
         /\ clientes_ingresados[k].tiempo_inicio_atencion
              = clientes_ingresados[j].tiempo_fin_atencion + 1
         /\ clientes_ingresados[a].abandono
         /\ clientes_ingresados[a].tiempo_abandono
              = clientes_ingresados[j].tiempo_fin_atencion

\* the box at position i ended a service at tick t
LiberadoEn(i, t) ==
    \E k \in Ids :
      /\ clientes_ingresados[k].box_asignado = boxes[i].id
      /\ clientes_ingresados[k].tiempo_fin_atencion = t

\* C24: no box stays idle across a whole step while customers wait: when a
\* step has ended with a non-empty queue, every free box was freed by the
\* completion phase of that same step; right after the assignment phase a
\* non-empty queue means that every box is occupied.
C24_SinBoxOcioso ==
    Construido =>
      /\ (pc = "bucle" /\ cola # <<>>) =>
           \A i \in 1..Len(boxes) :
             ~boxes[i].ocupado => LiberadoEn(i, tiempo_actual - 1)
      /\ (pc = "avance" /\ cola # <<>>) =>
           \A i \in 1..Len(boxes) :
             ~boxes[i].ocupado => LiberadoEn(i, tiempo_actual)
      /\ (pc = "finalizacion" /\ cola # <<>>) =>
           \A i \in 1..Len(boxes) : boxes[i].ocupado

\* a step has ended with customers waiting, one box just freed and another
\* still busy
C24_Witness ==
    /\ Construido
    /\ pc = "bucle"
    /\ cola # <<>>
    /\ \E i, j \in 1..Len(boxes) :
         /\ ~boxes[i].ocupado
         /\ LiberadoEn(i, tiempo_actual - 1)
         /\ boxes[j].ocupado

====
